---- MODULE Spec2Model ----
(***************************************************************************)
(* The data synchronization scripts of the repository:                     *)
(*   scripts/sync-amplify-data.js  (GraphQL over curl, with retries)       *)
(*   scripts/sync-amplify-sdk.js   (AWS CLI / curl, DynamoDB fallback)     *)
(*   scripts/sync-data.js          (local-storage.json <-> DynamoDB table) *)
(* Two replicas of the Todo collection, "local" and "deployed", are        *)
(* reconciled by one run of a script in one of its directions.  A run is   *)
(* a sequence of awaited accessor calls; every await is one step.          *)
(***************************************************************************)
EXTENDS Integers, Sequences, FiniteSets, TLC

\* ---------------------------------------------------------------- bounds
MaxTime == 2        \* initial records carry timestamps 1..MaxTime
MaxRuns == 2        \* the command is invoked at most MaxRuns times in a row
MaxFailures == 1    \* accessor calls that meet a failure, per behaviour
MaxCmdFails == 4    \* consecutive failing attempts of one shell command
MaxMutations == 1   \* todos the app user deletes while the command runs

\* ------------------------------------------------------ program constants
DefaultMaxRetries == 3
BatchSize == 25

Scripts == {"sync-amplify-data", "sync-amplify-sdk", "sync-data"}
Modes == {"local-to-deployed", "deployed-to-local", "two-way", "invalid"}
Ids == {"1", "2"}
IdOrder == <<"1", "2">>

\* ------------------------------------------------------------- timestamps
\* An ISO-8601 string is its instant (ms) and its spelling: "...:01Z" and
\* "...:01.000Z" are different strings of the same instant.
NaN == 0 - 1

toISOString(t) == [ms |-> t, form |-> ".000Z"]

getTime(ts) == IF ts.form \in {"Z", ".000Z"} THEN ts.ms ELSE NaN

\* JavaScript's > on numbers: false as soon as one side is NaN.
Gt(a, b) == a # NaN /\ b # NaN /\ a > b

\* ---------------------------------------------------------------- records
\* What the todos of the local replica say at first, and what those of the
\* deployed replica say: the two sides never agree before a sync.
LocalPayload == [content |-> "a", completed |-> FALSE]

DeployedPayload == [content |-> "b", completed |-> TRUE]

Payloads == {LocalPayload, DeployedPayload}

InitStamps == {toISOString(t) : t \in 1..MaxTime}

\* An updatedAt that new Date() cannot parse.
Malformed == [ms |-> 0, form |-> "not-a-date"]

InitRecords(id, p) ==
  {[id |-> id, content |-> p.content, completed |-> p.completed,
    createdAt |-> toISOString(1), updatedAt |-> u] :
      u \in InitStamps \cup {Malformed}}

Absent == [id |-> "none"]

RECURSIVE Flatten(_)
Flatten(ss) == IF ss = <<>> THEN <<>> ELSE Head(ss) \o Flatten(Tail(ss))

\* The collection a replica holds, listed in id order.
Listing(f) ==
  Flatten([i \in 1..Len(IdOrder) |->
             IF f[IdOrder[i]] = Absent THEN <<>> ELSE <<f[IdOrder[i]]>>])

InitReplicas(p) ==
  {Listing(f) : f \in {g \in [Ids -> UNION {InitRecords(id, p) : id \in Ids} \cup {Absent}] :
                         \A id \in Ids : g[id] = Absent \/ g[id].id = id}}

\* ------------------------------------------------- Map (id -> Todo) of JS
HasId(list, id) == \E i \in 1..Len(list) : list[i].id = id

\* Map.get after list.forEach(todo => map.set(todo.id, todo)): the last one.
MapGet(list, id) ==
  list[CHOOSE i \in 1..Len(list) :
         /\ list[i].id = id
         /\ \A j \in (i+1)..Len(list) : list[j].id # id]

\* Map.set: replace in place, or append.
MapSet(m, item) ==
  IF HasId(m, item.id)
  THEN [i \in 1..Len(m) |-> IF m[i].id = item.id THEN item ELSE m[i]]
  ELSE Append(m, item)

\* [...map.keys()]: the ids in the order of their first insertion.
RECURSIVE MapKeys(_)
MapKeys(list) ==
  IF list = <<>> THEN <<>>
  ELSE LET front == MapKeys(SubSeq(list, 1, Len(list) - 1))
           k == list[Len(list)].id
       IN IF \E i \in 1..Len(front) : front[i] = k THEN front ELSE Append(front, k)

IdSet(list) == {list[i].id : i \in 1..Len(list)}

Op(target, kind, todo) == [target |-> target, kind |-> kind, items |-> <<todo>>]


\* ------------------------------------------------ the loops of the syncs
\* LocalToDeployedStep that also pulls a newer deployed record, as the
\* two-way loop does.
LocalToDeployedStepPull(localTodo, deployedTodos) ==
  IF HasId(deployedTodos, localTodo.id)
  THEN LET deployedTodo == MapGet(deployedTodos, localTodo.id)
           localUpdatedAt == getTime(localTodo.updatedAt)
           deployedUpdatedAt == getTime(deployedTodo.updatedAt)
       IN IF Gt(localUpdatedAt, deployedUpdatedAt)
          THEN <<Op("deployed", "update", localTodo)>>
          ELSE IF Gt(deployedUpdatedAt, localUpdatedAt)
               THEN <<Op("local", "update", deployedTodo)>>
               ELSE <<>>
  ELSE <<Op("deployed", "create", localTodo)>>

\* One iteration of the loop of syncLocalToDeployed.
LocalToDeployedStep(localTodo, deployedTodos) ==
  IF HasId(deployedTodos, localTodo.id)
  THEN LET deployedTodo == MapGet(deployedTodos, localTodo.id)
           localUpdatedAt == getTime(localTodo.updatedAt)
           deployedUpdatedAt == getTime(deployedTodo.updatedAt)
       IN IF Gt(localUpdatedAt, deployedUpdatedAt)
          THEN <<Op("deployed", "update", localTodo)>>
          ELSE <<>>
  ELSE <<Op("deployed", "create", localTodo)>>

\* The accessor calls syncLocalToDeployed awaits, in order.
syncLocalToDeployed(localTodos, deployedTodos) ==
  Flatten([i \in 1..Len(localTodos) |->
             LocalToDeployedStep(localTodos[i], deployedTodos)])

\* DeployedToLocalStep that only updates and never creates.
DeployedToLocalStepUpdateOnly(deployedTodo, localTodos) ==
  IF HasId(localTodos, deployedTodo.id)
  THEN LET localTodo == MapGet(localTodos, deployedTodo.id)
           localUpdatedAt == getTime(localTodo.updatedAt)
           deployedUpdatedAt == getTime(deployedTodo.updatedAt)
       IN IF Gt(deployedUpdatedAt, localUpdatedAt)
          THEN <<Op("local", "update", deployedTodo)>>
          ELSE <<>>
  ELSE <<>>

\* One iteration of the loop of syncDeployedToLocal.
DeployedToLocalStep(deployedTodo, localTodos) ==
  IF HasId(localTodos, deployedTodo.id)
  THEN LET localTodo == MapGet(localTodos, deployedTodo.id)
           localUpdatedAt == getTime(localTodo.updatedAt)
           deployedUpdatedAt == getTime(deployedTodo.updatedAt)
       IN IF Gt(deployedUpdatedAt, localUpdatedAt)
          THEN <<Op("local", "update", deployedTodo)>>
          ELSE <<>>
  ELSE <<Op("local", "create", deployedTodo)>>

\* The accessor calls syncDeployedToLocal awaits, in order.
syncDeployedToLocal(localTodos, deployedTodos) ==
  Flatten([i \in 1..Len(deployedTodos) |->
             DeployedToLocalStep(deployedTodos[i], localTodos)])

\* CommonStep with the targets of its two updates exchanged.
CommonStepSwapped(id, localTodos, deployedTodos) ==
  LET localTodo == MapGet(localTodos, id)
      deployedTodo == MapGet(deployedTodos, id)
      localUpdatedAt == getTime(localTodo.updatedAt)
      deployedUpdatedAt == getTime(deployedTodo.updatedAt)
  IN IF Gt(localUpdatedAt, deployedUpdatedAt)
     THEN <<Op("local", "update", deployedTodo)>>
     ELSE IF Gt(deployedUpdatedAt, localUpdatedAt)
          THEN <<Op("deployed", "update", localTodo)>>
          ELSE <<>>

\* One iteration of the first loop of syncTwoWay (ids of both maps).
CommonStep(id, localTodos, deployedTodos) ==
  LET localTodo == MapGet(localTodos, id)
      deployedTodo == MapGet(deployedTodos, id)
      localUpdatedAt == getTime(localTodo.updatedAt)
      deployedUpdatedAt == getTime(deployedTodo.updatedAt)
  IN IF Gt(localUpdatedAt, deployedUpdatedAt)
     THEN <<Op("deployed", "update", localTodo)>>
     ELSE IF Gt(deployedUpdatedAt, localUpdatedAt)
          THEN <<Op("local", "update", deployedTodo)>>
          ELSE <<>>

commonTodoIds(localTodos, deployedTodos) ==
  SelectSeq(MapKeys(localTodos), LAMBDA id : HasId(deployedTodos, id))

\* localOnlyTodoIds without its filter.
localOnlyTodoIdsUnfiltered(localTodos, deployedTodos) == MapKeys(localTodos)

localOnlyTodoIds(localTodos, deployedTodos) ==
  SelectSeq(MapKeys(localTodos), LAMBDA id : ~HasId(deployedTodos, id))

deployedOnlyTodoIds(localTodos, deployedTodos) ==
  SelectSeq(MapKeys(deployedTodos), LAMBDA id : ~HasId(localTodos, id))

\* The accessor calls syncTwoWay awaits, in order: its three loops.
syncTwoWay(localTodos, deployedTodos) ==
  LET common == commonTodoIds(localTodos, deployedTodos)
      localOnly == localOnlyTodoIds(localTodos, deployedTodos)
      deployedOnly == deployedOnlyTodoIds(localTodos, deployedTodos)
  IN Flatten([i \in 1..Len(common) |->
                CommonStep(common[i], localTodos, deployedTodos)])
     \o [i \in 1..Len(localOnly) |->
           Op("deployed", "create", MapGet(localTodos, localOnly[i]))]
     \o [i \in 1..Len(deployedOnly) |->
           Op("local", "create", MapGet(deployedTodos, deployedOnly[i]))]

\* ------------------------------------------------- the merge of sync-data
RECURSIVE FoldSet(_, _)
FoldSet(m, list) ==
  IF list = <<>> THEN m ELSE FoldSet(MapSet(m, Head(list)), Tail(list))

\* MergeLocal without the comparison: the local item always replaces.
RECURSIVE MergeLocalAlways(_, _)
MergeLocalAlways(m, list) ==
  IF list = <<>> THEN m
  ELSE MergeLocalAlways(MapSet(m, Head(list)), Tail(list))

\* localData.forEach of the two-way branch of main: the local item replaces
\* the merged one only when its updatedAt is strictly greater.
RECURSIVE MergeLocal(_, _)
MergeLocal(m, list) ==
  IF list = <<>> THEN m
  ELSE LET item == Head(list)
           next == IF HasId(m, item.id)
                   THEN LET cloudItem == MapGet(m, item.id)
                            cloudUpdatedAt == getTime(cloudItem.updatedAt)
                            localUpdatedAt == getTime(item.updatedAt)
                        IN IF Gt(localUpdatedAt, cloudUpdatedAt)
                           THEN MapSet(m, item) ELSE m
                   ELSE MapSet(m, item)
       IN MergeLocal(next, Tail(list))

mergedItems(localData, cloudData) == MergeLocal(FoldSet(<<>>, cloudData), localData)

Import(target, items) == [target |-> target, kind |-> "import", items |-> items]

\* The imports main of sync-data.js awaits for a direction, in order.
syncData(direction, localData, cloudData) ==
  CASE direction = "local-to-deployed" -> <<Import("deployed", localData)>>
    [] direction = "deployed-to-local" -> <<Import("local", cloudData)>>
    [] direction = "two-way" ->
         LET merged == mergedItems(localData, cloudData)
         IN <<Import("local", merged), Import("deployed", merged)>>
    [] OTHER -> <<>>

\* importToDynamoDB: consecutive slices of BatchSize items.
Chunks(items) ==
  [k \in 1..((Len(items) + BatchSize - 1) \div BatchSize) |->
     SubSeq(items, (k - 1) * BatchSize + 1,
            IF k * BatchSize < Len(items) THEN k * BatchSize ELSE Len(items))]

\* --------------------------------------------------------------- backends
\* createTodo of the GraphQL API: the input carries id, content, completed;
\* the service stamps createdAt and updatedAt, and refuses an id it holds.
CreateAccepted(store, input) == ~HasId(store, input.id)

GraphQLCreate(store, input, t) ==
  Append(store, [id |-> input.id, content |-> input.content,
                 completed |-> input.completed,
                 createdAt |-> toISOString(t), updatedAt |-> toISOString(t)])

\* updateTodo of the GraphQL API: refuses an id it does not hold, keeps
\* createdAt and stamps updatedAt.
UpdateAccepted(store, input) == HasId(store, input.id)

GraphQLUpdate(store, input, t) ==
  [i \in 1..Len(store) |->
     IF store[i].id = input.id
     THEN [store[i] EXCEPT !.content = input.content,
                           !.completed = input.completed,
                           !.updatedAt = toISOString(t)]
     ELSE store[i]]

\* PutCommand / PutRequest of DynamoDB: the item replaces the one of its id.
DynamoPut(store, item) == MapSet(store, item)

\* variables.input of createDeployedTodo / createLocalTodo.
CreateInput(todo) ==
  [id |-> todo.id, content |-> todo.content, completed |-> todo.completed]

\* variables.input of updateDeployedTodo / updateLocalTodo.
UpdateInput(todo) ==
  [id |-> todo.id, content |-> todo.content, completed |-> todo.completed]

\* Item of the DynamoDB fallback of createDeployedTodo (sync-amplify-sdk.js).
FallbackCreateItem(todo) ==
  [id |-> todo.id, content |-> todo.content, completed |-> todo.completed,
   createdAt |-> todo.createdAt, updatedAt |-> todo.updatedAt]

\* Item of the DynamoDB fallback of updateDeployedTodo (sync-amplify-sdk.js).
FallbackUpdateItem(todo, t) ==
  [id |-> todo.id, content |-> todo.content, completed |-> todo.completed,
   createdAt |-> todo.createdAt, updatedAt |-> toISOString(t)]

\* ---------------------------------------------------------------- execute
\* How often execute runs a command that fails `fails` times in a row.
MaxAttempts(s) == IF s = "sync-amplify-data" THEN DefaultMaxRetries + 1 ELSE 1

Attempts(s, fails) == IF fails < MaxAttempts(s) THEN fails + 1 ELSE MaxAttempts(s)

\* execute: the output, null (ignoreError) or process.exit(1).
execute(s, fails, ignoreError) ==
  IF fails < MaxAttempts(s) THEN "output"
  ELSE IF ignoreError THEN "null" ELSE "exit"


\* What the world answers to one accessor call: how often the shell command
\* fails in a row, whether the GraphQL response carries data, whether the
\* sandbox can be started, whether the table name can be read, and whether
\* the SDK or file-system call throws.
Env ==
  [fails : 0..MaxCmdFails, resp : {"data", "errors"},
   sandbox : {"up", "startFails"}, table : {"ok", "fails"}, io : {"ok", "throws"}]

\* A curl answer as the accessor reads it: the record, or null.
GraphQLResult(out, resp, accepted) ==
  IF out = "output" /\ resp = "data" /\ accepted THEN "ok" ELSE "null"

\* listLocalTodos, createLocalTodo, updateLocalTodo of sync-amplify-data.js:
\* execute with ignoreError.
DataLocalResult(e, accepted) ==
  GraphQLResult(execute("sync-amplify-data", e.fails, TRUE), e.resp, accepted)

\* executeGraphQL of sync-amplify-data.js: execute without ignoreError.
DataDeployedResult(e, accepted) ==
  LET out == execute("sync-amplify-data", e.fails, FALSE)
  IN IF out = "exit" THEN "exit" ELSE GraphQLResult(out, e.resp, accepted)

\* getLocalTodos, createLocalTodo, updateLocalTodo of sync-amplify-sdk.js:
\* starting the sandbox is an execute without ignoreError.
SdkLocalResult(e, accepted) ==
  IF e.sandbox = "startFails" THEN "exit"
  ELSE GraphQLResult(execute("sync-amplify-sdk", e.fails, TRUE), e.resp, accepted)

\* getDeployedTodos, createDeployedTodo, updateDeployedTodo of
\* sync-amplify-sdk.js: the AWS CLI, else DynamoDB directly.
SdkDeployedResult(e, accepted) ==
  LET out == execute("sync-amplify-sdk", e.fails, TRUE)
  IN IF out = "output" THEN GraphQLResult(out, e.resp, accepted)
     ELSE IF e.table = "fails" THEN "exit"
     ELSE IF e.io = "throws" THEN "null"
     ELSE "fallback"

\* exportFromLocalStorage, importToLocalStorage of sync-data.js.
FileResult(e) == IF e.io = "throws" THEN "null" ELSE "ok"

\* exportFromDynamoDB, importToDynamoDB of sync-data.js: getTableName is an
\* execute without ignoreError, then the SDK call.
TableResult(e) ==
  IF execute("sync-data", IF e.table = "fails" THEN 1 ELSE 0, FALSE) = "exit"
  THEN "exit"
  ELSE IF e.io = "throws" THEN "null" ELSE "ok"

AccessorResult(s, target, e, accepted) ==
  CASE s = "sync-amplify-data" /\ target = "local" -> DataLocalResult(e, accepted)
    [] s = "sync-amplify-data" /\ target = "deployed" -> DataDeployedResult(e, accepted)
    [] s = "sync-amplify-sdk" /\ target = "local" -> SdkLocalResult(e, accepted)
    [] s = "sync-amplify-sdk" /\ target = "deployed" -> SdkDeployedResult(e, accepted)
    [] s = "sync-data" /\ target = "local" -> FileResult(e)
    [] s = "sync-data" /\ target = "deployed" -> TableResult(e)

\* CommandRuns of an accessor that runs its command again, as often as
\* execute allows, when the answer carries no data.
CommandRunsRetryOnNull(s, target, e, accepted) ==
  IF s = "sync-data" THEN (IF target = "local" THEN 0 ELSE 1)
  ELSE IF e.resp = "errors" \/ ~accepted THEN MaxAttempts(s)
  ELSE Attempts(s, e.fails)

\* How often the accessor's shell command is executed: none for the file
\* accesses of sync-data.js, one "ampx sandbox --outputs" for its table
\* accesses, and execute's attempts for the curl / AWS CLI of the others.
CommandRuns(s, target, e, accepted) ==
  IF s = "sync-data" THEN (IF target = "local" THEN 0 ELSE 1)
  ELSE Attempts(s, e.fails)

\* How many of these executions failed.
CommandFails(s, target, e) ==
  IF s = "sync-data" THEN (IF target = "deployed" /\ e.table = "fails" THEN 1 ELSE 0)
  ELSE IF e.fails < MaxAttempts(s) THEN e.fails ELSE MaxAttempts(s)

\* What one accessor call can come to, over everything the world answers.
Outcomes(s, target, accepted) ==
  {[res |-> AccessorResult(s, target, e, accepted),
    attempts |-> CommandRuns(s, target, e, accepted),
    cmdFails |-> CommandFails(s, target, e)] : e \in Env}

\* The results one accessor call can have, over everything the world answers.
Results(s, target, accepted) == {o.res : o \in Outcomes(s, target, accepted)}

Succeeded(res) == res \in {"ok", "fallback"}

\* The calls a run awaits after its listings.
PlanFor(s, m, localTodos, deployedTodos) ==
  IF s = "sync-data" THEN syncData(m, localTodos, deployedTodos)
  ELSE CASE m = "local-to-deployed" -> syncLocalToDeployed(localTodos, deployedTodos)
         [] m = "deployed-to-local" -> syncDeployedToLocal(localTodos, deployedTodos)
         [] m = "two-way" -> syncTwoWay(localTodos, deployedTodos)
         [] OTHER -> <<>>

\* ------------------------------------------------------------------ state
VARIABLES
  script,         \* which of the three scripts is run
  mode,           \* the direction asked for (argument or prompt answer)
  pc,             \* where the run is: main, listLocal, listDeployed, sync, done, exited
  run,            \* how many times the command has been started
  local,          \* replica A: the local sandbox / local-storage.json
  deployed,       \* replica B: the deployed API / DynamoDB table
  now,            \* the clock of the backends
  localTodos,     \* what the run listed from A
  deployedTodos,  \* what the run listed from B
  plan,           \* the accessor calls the loops still have to await
  calls,          \* the create/update/import calls issued by this run
  failures,       \* accessor calls that met a failure so far
  exitCode,       \* the exit code of the process
  local0,         \* replica A when the run started
  deployed0,      \* replica B when the run started
  clean,          \* every accessor call of this run succeeded so far, and
                  \* no listing held a record twice
  prevClean,      \* every accessor call of the previous run succeeded
  listFailed,     \* a listing of this run failed
  attempts,       \* executions of the shell command of the last accessor call
  cmdFails,       \* how many of them failed
  mutations,      \* todos deleted or updated by the app user so far
  deleted,        \* the deletions of the app user: which replica, id and run
  hostname,       \* window.location.hostname of the page
  localStorage,   \* window.localStorage: the entries of the two keys in use
  client,         \* the backend behind client.models.Todo
  dateNow,        \* Date.now() of the browser
  todoList,       \* the state of the TodoList component
  auth,           \* the state of the LocalAuthProvider component
  exec,           \* one call of execute: its options and its loop
  batch           \* one call of importToDynamoDB: its items and its loop

vars == <<script, mode, pc, run, local, deployed, now, localTodos, deployedTodos,
          plan, calls, failures, exitCode, local0, deployed0, clean, prevClean,
          listFailed, attempts, cmdFails, mutations, deleted, hostname,
          localStorage, client, dateNow, todoList, auth, exec, batch>>

\* The variables of the sync scripts, and those of the other programs.
syncVars == <<script, mode, pc, run, local, deployed, now, localTodos,
              deployedTodos, plan, calls, failures, exitCode, local0, deployed0,
              clean, prevClean, listFailed, attempts, cmdFails, mutations,
              deleted>>

pageVars == <<hostname, localStorage, client, dateNow, todoList, auth>>

appVars == <<pageVars, exec, batch>>

\* localStorage.getItem returns null for a key that was never set.
Null == [kind |-> "null", value |-> <<>>]

\* The page before its first render: the useState initial values.
TodoListState ==
  [isLocal |-> FALSE, isMounted |-> FALSE, isConnected |-> FALSE,
   loading |-> TRUE, todos |-> <<>>, localTodos |-> <<>>,
   effects |-> <<"mount">>, manual |-> FALSE,
   lastCall |-> [op |-> "none", backend |-> FALSE, available |-> FALSE]]

AuthState ==
  [user |-> Null, isAuthenticated |-> FALSE, showAuthForm |-> FALSE,
   authMode |-> "signIn", username |-> "", email |-> "", password |-> "",
   effects |-> <<"mount">>]

NoPage ==
  /\ hostname = "localhost"
  /\ localStorage = [localTodos |-> Null, local_auth_user |-> Null]
  /\ client = [available |-> TRUE, todos |-> <<>>]
  /\ dateNow = 1
  /\ todoList = TodoListState
  /\ auth = AuthState

NoExecute == exec = [pc |-> "idle"]

NoBatch == batch = [pc |-> "idle"]

Init ==
  /\ script \in Scripts
  /\ mode \in Modes
  /\ pc = "main"
  /\ run = 1
  /\ local \in InitReplicas(LocalPayload)
  /\ deployed \in InitReplicas(DeployedPayload)
  /\ now = MaxTime + 1
  /\ localTodos = <<>>
  /\ deployedTodos = <<>>
  /\ plan = <<>>
  /\ calls = <<>>
  /\ failures = 0
  /\ exitCode = 0
  /\ local0 = local
  /\ deployed0 = deployed
  /\ clean = TRUE
  /\ prevClean = TRUE
  /\ listFailed = FALSE
  /\ attempts = 0
  /\ cmdFails = 0
  /\ mutations = 0
  /\ deleted = <<>>
  /\ NoPage
  /\ NoExecute
  /\ NoBatch

\* An accessor call without any failure: its command ran once and well.
Smooth(o) == o.res = "ok" /\ o.cmdFails = 0

Allowed(o) == Smooth(o) \/ failures < MaxFailures

\* What the listing command of a replica prints when it succeeds: the records
\* of the replica, or, from a GraphQL endpoint that misbehaves, its records
\* with one of them twice. The list is used as it is parsed.
Repeated(items) == <<items[1]>> \o items

Answers(s, store) ==
  {store} \cup (IF s # "sync-data" /\ store # <<>> THEN {Repeated(store)} ELSE {})

\* ---------------------------------------------------------------- actions
\* main without the default branch of its switch: every direction is synced.
mainWithoutDefault ==
  /\ pc = "main"
  /\ pc' = IF script = "sync-data" /\ mode = "deployed-to-local"
           THEN "listDeployed" ELSE "listLocal"
  /\ exitCode' = 0
  /\ UNCHANGED <<script, mode, run, local, deployed, now, localTodos, deployedTodos,
                 plan, calls, failures, local0, deployed0, clean, prevClean,
                 listFailed, attempts, cmdFails, mutations, deleted>>
  /\ UNCHANGED appVars

\* main: the switch on the direction.
main ==
  /\ pc = "main"
  /\ pc' = IF mode = "invalid"
           THEN (IF script = "sync-data" THEN "exited" ELSE "done")
           ELSE IF script = "sync-data" /\ mode = "deployed-to-local"
                THEN "listDeployed" ELSE "listLocal"
  /\ exitCode' = IF mode = "invalid" /\ script = "sync-data" THEN 1 ELSE 0
  /\ UNCHANGED <<script, mode, run, local, deployed, now, localTodos, deployedTodos,
                 plan, calls, failures, local0, deployed0, clean, prevClean,
                 listFailed, attempts, cmdFails, mutations, deleted>>
  /\ UNCHANGED appVars

\* listLocalTodos / getLocalTodos / exportFromLocalStorage.
listLocalTodos ==
  /\ pc = "listLocal"
  /\ \E o \in Outcomes(script, "local", TRUE), answer \in Answers(script, local) :
       LET res == o.res
           items == IF Succeeded(res) THEN answer ELSE <<>>
           last == script = "sync-data" /\ mode = "local-to-deployed"
       IN /\ Allowed(o)
          /\ answer # local => (Smooth(o) /\ failures < MaxFailures)
          /\ localTodos' = items
          /\ pc' = IF res = "exit" THEN "exited"
                   ELSE IF last THEN "sync" ELSE "listDeployed"
          /\ plan' = IF last /\ res # "exit"
                     THEN PlanFor(script, mode, items, deployedTodos) ELSE plan
          /\ exitCode' = IF res = "exit" THEN 1 ELSE exitCode
          /\ failures' = IF Smooth(o) /\ answer = local THEN failures ELSE failures + 1
          /\ clean' = (clean /\ Succeeded(res) /\ answer = local)
          /\ listFailed' = (listFailed \/ ~Succeeded(res))
          /\ attempts' = o.attempts
          /\ cmdFails' = o.cmdFails
  /\ UNCHANGED <<script, mode, run, local, deployed, now, deployedTodos, calls,
                 local0, deployed0, prevClean, mutations, deleted>>
  /\ UNCHANGED appVars

\* listDeployedTodos / getDeployedTodos / exportFromDynamoDB.
listDeployedTodos ==
  /\ pc = "listDeployed"
  /\ \E o \in Outcomes(script, "deployed", TRUE), answer \in Answers(script, deployed) :
       LET res == o.res
           items == IF Succeeded(res) THEN answer ELSE <<>>
       IN /\ Allowed(o)
          /\ answer # deployed => (Smooth(o) /\ failures < MaxFailures)
          /\ deployedTodos' = items
          /\ pc' = IF res = "exit" THEN "exited" ELSE "sync"
          /\ plan' = IF res # "exit"
                     THEN PlanFor(script, mode, localTodos, items) ELSE plan
          /\ exitCode' = IF res = "exit" THEN 1 ELSE exitCode
          /\ failures' = IF Smooth(o) /\ answer = deployed THEN failures ELSE failures + 1
          /\ clean' = (clean /\ Succeeded(res) /\ answer = deployed)
          /\ listFailed' = (listFailed \/ ~Succeeded(res))
          /\ attempts' = o.attempts
          /\ cmdFails' = o.cmdFails
  /\ UNCHANGED <<script, mode, run, local, deployed, now, localTodos, calls,
                 local0, deployed0, prevClean, mutations, deleted>>
  /\ UNCHANGED appVars

\* Whether the target replica holds the id of the record the call carries,
\* when the call is made.
Held(op) ==
  op.kind = "import"
    \/ HasId(IF op.target = "local" THEN local ELSE deployed, op.items[1].id)

\* The updatedAt, in milliseconds, of the record of that id in the target
\* replica when the call is made.
HeldAt(op) ==
  IF op.kind = "import" \/ ~Held(op) THEN NaN
  ELSE getTime(MapGet(IF op.target = "local" THEN local ELSE deployed,
                      op.items[1].id).updatedAt)

\* What every create/update/import call does to the run, whatever its result.
Call(op, o, newLocal, newDeployed) ==
  /\ Allowed(o)
  /\ calls' = Append(calls, [op |-> op, ok |-> Succeeded(o.res),
                             found |-> Held(op), heldAt |-> HeldAt(op),
                             attempts |-> o.attempts, cmdFails |-> o.cmdFails])
  /\ attempts' = o.attempts
  /\ cmdFails' = o.cmdFails
  /\ local' = newLocal
  /\ deployed' = newDeployed
  /\ now' = now + 1
  /\ plan' = Tail(plan)
  /\ pc' = IF o.res = "exit" THEN "exited" ELSE "sync"
  /\ exitCode' = IF o.res = "exit" THEN 1 ELSE exitCode
  /\ failures' = IF Smooth(o) THEN failures ELSE failures + 1
  /\ clean' = (clean /\ Succeeded(o.res))
  /\ UNCHANGED <<script, mode, run, localTodos, deployedTodos,
                 local0, deployed0, prevClean, listFailed, mutations, deleted>>
  /\ UNCHANGED appVars

\* NextOp of a loop that takes its elements from the end.
NextOpFromEnd == plan[Len(plan)]

\* The call the loops come to next: for ... of, from the first on.
NextOp == Head(plan)

Next1(kind, target) ==
  /\ pc = "sync"
  /\ plan # <<>>
  /\ NextOp.kind = kind
  /\ NextOp.target = target

createDeployedTodo ==
  /\ Next1("create", "deployed")
  /\ LET todo == NextOp.items[1]
     IN \E o \in Outcomes(script, "deployed", CreateAccepted(deployed, CreateInput(todo))) :
       Call(NextOp, o, local,
               CASE o.res = "ok" -> GraphQLCreate(deployed, CreateInput(todo), now)
                 [] o.res = "fallback" -> DynamoPut(deployed, FallbackCreateItem(todo))
                 [] OTHER -> deployed)

createLocalTodo ==
  /\ Next1("create", "local")
  /\ LET todo == NextOp.items[1]
     IN \E o \in Outcomes(script, "local", CreateAccepted(local, CreateInput(todo))) :
       Call(NextOp, o,
               IF o.res = "ok" THEN GraphQLCreate(local, CreateInput(todo), now) ELSE local,
               deployed)

updateDeployedTodo ==
  /\ Next1("update", "deployed")
  /\ LET todo == NextOp.items[1]
     IN \E o \in Outcomes(script, "deployed", UpdateAccepted(deployed, UpdateInput(todo))) :
       Call(NextOp, o, local,
               CASE o.res = "ok" -> GraphQLUpdate(deployed, UpdateInput(todo), now)
                 [] o.res = "fallback" -> DynamoPut(deployed, FallbackUpdateItem(todo, now))
                 [] OTHER -> deployed)

updateLocalTodo ==
  /\ Next1("update", "local")
  /\ LET todo == NextOp.items[1]
     IN \E o \in Outcomes(script, "local", UpdateAccepted(local, UpdateInput(todo))) :
       Call(NextOp, o,
               IF o.res = "ok" THEN GraphQLUpdate(local, UpdateInput(todo), now) ELSE local,
               deployed)

\* importToLocalStorage: the file is rewritten with the items.
importToLocalStorage ==
  /\ Next1("import", "local")
  /\ \E o \in Outcomes(script, "local", TRUE) :
       Call(NextOp, o, IF o.res = "ok" THEN NextOp.items ELSE local, deployed)

\* importToDynamoDB: one BatchWrite per chunk, until one throws.
importToDynamoDB ==
  /\ Next1("import", "deployed")
  /\ LET chunks == Chunks(NextOp.items)
     IN \E o \in Outcomes(script, "deployed", TRUE), sent \in 0..Len(chunks) :
          /\ (o.res = "ok") = (sent = Len(chunks))
          /\ (o.res = "exit") => (sent = 0)
          /\ Call(NextOp, o, local,
                  FoldSet(deployed, Flatten(SubSeq(chunks, 1, sent))))

\* The loops are over: the run logs its success and the process ends.
Finish ==
  /\ pc = "sync"
  /\ plan = <<>>
  /\ pc' = "done"
  /\ exitCode' = 0
  /\ UNCHANGED <<script, mode, run, local, deployed, now, localTodos, deployedTodos,
                 plan, calls, failures, local0, deployed0, clean, prevClean,
                 listFailed, attempts, cmdFails, mutations, deleted>>
  /\ UNCHANGED appVars

\* The same command is started again.
Rerun ==
  /\ pc = "done"
  /\ mode # "invalid"
  /\ run < MaxRuns
  /\ run' = run + 1
  /\ pc' = "main"
  /\ localTodos' = <<>>
  /\ deployedTodos' = <<>>
  /\ plan' = <<>>
  /\ calls' = <<>>
  /\ local0' = local
  /\ deployed0' = deployed
  /\ prevClean' = clean
  /\ clean' = TRUE
  /\ listFailed' = FALSE
  /\ UNCHANGED <<script, mode, local, deployed, now, failures, exitCode,
                 attempts, cmdFails, mutations, deleted>>
  /\ UNCHANGED appVars

\* deleteTodo of the TodoList component: the app user deletes a todo of one
\* of the replicas while the command is in its loops, with calls to come.
Without(store, id) == SelectSeq(store, LAMBDA todo : todo.id # id)

deleteTodo ==
  /\ pc = "sync"
  /\ plan # <<>>
  /\ mutations < MaxMutations
  /\ \E target \in {"local", "deployed"}, id \in Ids :
       /\ HasId(IF target = "local" THEN local ELSE deployed, id)
       /\ deleted' = Append(deleted, [target |-> target, id |-> id, run |-> run,
                                      both |-> HasId(local, id) /\ HasId(deployed, id)])
       /\ local' = IF target = "local" THEN Without(local, id) ELSE local
       /\ deployed' = IF target = "deployed" THEN Without(deployed, id) ELSE deployed
  /\ mutations' = mutations + 1
  /\ UNCHANGED <<script, mode, pc, run, now, localTodos, deployedTodos, plan, calls,
                 failures, exitCode, local0, deployed0, clean, prevClean,
                 listFailed, attempts, cmdFails>>
  /\ UNCHANGED appVars

\* toggleTodoStatus of the TodoList component, connected to the backend of
\* one of the replicas: another client updates a todo while the command is in
\* its loops, with calls to come.
toggleTodoStatus ==
  /\ pc = "sync"
  /\ plan # <<>>
  /\ mutations < MaxMutations
  /\ \E target \in {"local", "deployed"}, id \in Ids :
       LET store == IF target = "local" THEN local ELSE deployed
           todo == MapGet(store, id)
           updated == GraphQLUpdate(store, [id |-> id, content |-> todo.content,
                                            completed |-> ~todo.completed], now)
       IN /\ HasId(store, id)
          /\ local' = IF target = "local" THEN updated ELSE local
          /\ deployed' = IF target = "deployed" THEN updated ELSE deployed
  /\ now' = now + 1
  /\ mutations' = mutations + 1
  /\ UNCHANGED <<script, mode, pc, run, localTodos, deployedTodos, plan, calls,
                 failures, exitCode, local0, deployed0, clean, prevClean,
                 listFailed, attempts, cmdFails, deleted>>
  /\ UNCHANGED appVars

Next ==
  \/ main
  \/ listLocalTodos
  \/ listDeployedTodos
  \/ createDeployedTodo
  \/ createLocalTodo
  \/ updateDeployedTodo
  \/ updateLocalTodo
  \/ importToLocalStorage
  \/ importToDynamoDB
  \/ Finish
  \/ Rerun
  \/ deleteTodo
  \/ toggleTodoStatus

Spec == Init /\ [][Next]_vars

\* What syncLocalToDeployed, syncDeployedToLocal, syncTwoWay and the main of
\* the three scripts resolve to: they have no return statement and keep no
\* count of what the accessors returned.
Undefined == [kind |-> "undefined"]

Returned == Undefined


\* ============================================================ the TodoList page
\* No sync script is running.
NoSync ==
  /\ script = "sync-data"
  /\ mode = "invalid"
  /\ pc = "idle"
  /\ run = 0
  /\ local = <<>>
  /\ deployed = <<>>
  /\ now = 0
  /\ localTodos = <<>>
  /\ deployedTodos = <<>>
  /\ plan = <<>>
  /\ calls = <<>>
  /\ failures = 0
  /\ exitCode = 0
  /\ local0 = <<>>
  /\ deployed0 = <<>>
  /\ clean = TRUE
  /\ prevClean = TRUE
  /\ listFailed = FALSE
  /\ attempts = 0
  /\ cmdFails = 0
  /\ mutations = 0
  /\ deleted = <<>>

\* How many todos the user of the page creates.
MaxCreated == 2

Hostnames == {"localhost", "main.app.amplifyapp.com"}

getIsLocal == hostname = "localhost"

\* JSON.stringify of a value, and JSON.parse of a stored entry.
JSONstringify(value) == [kind |-> "json", value |-> value]

JSONparse(entry) == entry.value

\* const displayTodos = isLocal && !isConnected ? localTodos : todos
UsesLocal == todoList.isLocal /\ ~todoList.isConnected

displayTodos == IF UsesLocal THEN todoList.localTodos ELSE todoList.todos

\* The page is rendered with its form and its list, and no effect is pending.
Rendered ==
  /\ todoList.isMounted
  /\ ~todoList.loading
  /\ todoList.effects = <<>>

Effect(name) == todoList.effects # <<>> /\ Head(todoList.effects) = name

InitTodoList ==
  /\ NoSync
  /\ NoExecute
  /\ NoBatch
  /\ hostname \in Hostnames
  /\ localStorage = [localTodos |-> Null, local_auth_user |-> Null]
  /\ client \in [available : BOOLEAN, todos : {<<>>}]
  /\ dateNow = 1
  /\ todoList = TodoListState
  /\ auth = AuthState

\* useEffect(() => { setIsLocal(getIsLocal()); setIsMounted(true) }, []): the
\* three effects that depend on isLocal and isMounted run after it.
TodoListMount ==
  /\ Effect("mount")
  /\ todoList' = [todoList EXCEPT !.isLocal = getIsLocal,
                                  !.isMounted = TRUE,
                                  !.effects = <<"load", "save", "connect">>]
  /\ UNCHANGED <<hostname, localStorage, client, dateNow, auth>>
  /\ UNCHANGED <<syncVars, exec, batch>>

\* Load local todos from localStorage.
TodoListLoad ==
  /\ Effect("load")
  /\ LET storedTodos == localStorage.localTodos
         parsed == /\ todoList.isLocal
                   /\ todoList.isMounted
                   /\ storedTodos.kind = "json"
     IN todoList' = [todoList EXCEPT
                       !.localTodos = IF parsed THEN JSONparse(storedTodos) ELSE @,
                       !.effects = Tail(@)]
  /\ UNCHANGED <<hostname, localStorage, client, dateNow, auth>>
  /\ UNCHANGED <<syncVars, exec, batch>>

\* Save local todos to localStorage when they change.
TodoListSave ==
  /\ Effect("save")
  /\ localStorage' =
       IF todoList.isLocal /\ todoList.isMounted /\ Len(todoList.localTodos) > 0
       THEN [localStorage EXCEPT !.localTodos = JSONstringify(todoList.localTodos)]
       ELSE localStorage
  /\ todoList' = [todoList EXCEPT !.effects = Tail(@)]
  /\ UNCHANGED <<hostname, client, dateNow, auth>>
  /\ UNCHANGED <<syncVars, exec, batch>>

\* checkConnectionAndFetchTodos: client.models.Todo.list() resolves or rejects.
checkConnectionAndFetchTodos ==
  /\ Effect("connect")
  /\ todoList' = [todoList EXCEPT
                    !.todos = IF client.available THEN client.todos ELSE @,
                    !.isConnected = client.available,
                    !.loading = FALSE,
                    !.effects = Tail(@)]
  /\ UNCHANGED <<hostname, localStorage, client, dateNow, auth>>
  /\ UNCHANGED <<syncVars, exec, batch>>

\* What an operation of the page leaves in the component: the local list
\* changed (the save effect is due), or the backend was called.
Operated(op, newLocalTodos, newTodos) ==
  todoList' = [todoList EXCEPT
                 !.localTodos = IF UsesLocal THEN newLocalTodos ELSE @,
                 !.todos = IF ~UsesLocal /\ client.available THEN newTodos ELSE @,
                 !.effects = IF UsesLocal THEN <<"save">> ELSE @,
                 !.lastCall = [op |-> op, backend |-> ~UsesLocal,
                               available |-> client.available]]

Toggled(todos, id) ==
  [i \in 1..Len(todos) |->
     IF todos[i].id = id THEN [todos[i] EXCEPT !.completed = ~@] ELSE todos[i]]

Filtered(todos, id) == SelectSeq(todos, LAMBDA todo : todo.id # id)

TodoListCreateTodo ==
  /\ Rendered
  /\ dateNow <= MaxCreated
  /\ LET newTodoItem == [id |-> dateNow, completed |-> FALSE]
     IN /\ Operated("createTodo", <<newTodoItem>> \o todoList.localTodos,
                    <<newTodoItem>> \o todoList.todos)
        /\ client' = IF ~UsesLocal /\ client.available
                     THEN [client EXCEPT !.todos = Append(@, newTodoItem)]
                     ELSE client
  /\ dateNow' = dateNow + 1
  /\ UNCHANGED <<hostname, localStorage, auth>>
  /\ UNCHANGED <<syncVars, exec, batch>>

TodoListToggleTodoStatus ==
  /\ Rendered
  /\ \E k \in 1..Len(displayTodos) :
       LET id == displayTodos[k].id
       IN /\ Operated("toggleTodoStatus", Toggled(todoList.localTodos, id),
                      Toggled(todoList.todos, id))
          /\ client' = IF ~UsesLocal /\ client.available
                       THEN [client EXCEPT !.todos = Toggled(@, id)]
                       ELSE client
  /\ UNCHANGED <<hostname, localStorage, dateNow, auth>>
  /\ UNCHANGED <<syncVars, exec, batch>>

TodoListDeleteTodo ==
  /\ Rendered
  /\ \E k \in 1..Len(displayTodos) :
       LET id == displayTodos[k].id
       IN /\ Operated("deleteTodo", Filtered(todoList.localTodos, id),
                      Filtered(todoList.todos, id))
          /\ client' = IF ~UsesLocal /\ client.available
                       THEN [client EXCEPT !.todos = Filtered(@, id)]
                       ELSE client
  /\ UNCHANGED <<hostname, localStorage, dateNow, auth>>
  /\ UNCHANGED <<syncVars, exec, batch>>

\* Toggle between local and connected mode: the button is rendered in a
\* local environment only.
toggleMode ==
  /\ Rendered
  /\ todoList.isLocal
  /\ todoList' = [todoList EXCEPT !.isConnected = ~@, !.manual = TRUE]
  /\ UNCHANGED <<hostname, localStorage, client, dateNow, auth>>
  /\ UNCHANGED <<syncVars, exec, batch>>

\* The page is loaded again: the component starts from its initial state,
\* the browser keeps its localStorage.
TodoListReload ==
  /\ Rendered
  /\ todoList' = TodoListState
  /\ UNCHANGED <<hostname, localStorage, client, dateNow, auth>>
  /\ UNCHANGED <<syncVars, exec, batch>>

NextTodoList ==
  \/ TodoListMount
  \/ TodoListLoad
  \/ TodoListSave
  \/ checkConnectionAndFetchTodos
  \/ TodoListCreateTodo
  \/ TodoListToggleTodoStatus
  \/ TodoListDeleteTodo
  \/ toggleMode
  \/ TodoListReload

SpecTodoList == InitTodoList /\ [][NextTodoList]_vars


\* ==================================================================== execute
\* The largest maxRetries a caller of execute configures.
MaxOption == 2

\* An option of the options object: given with a number, or left out.
NotGiven == [given |-> FALSE, value |-> 0]

Given(n) == [given |-> TRUE, value |-> n]

\* options.maxRetries || 3: the default also replaces a falsy number.
OrDefault(option, default) ==
  IF option.given /\ option.value # 0 THEN option.value ELSE default

ExecuteOptions ==
  [maxRetries : {NotGiven} \cup {Given(n) : n \in 0..MaxOption},
   noRetry : BOOLEAN,
   ignoreError : BOOLEAN,
   exitOnError : BOOLEAN]

InitExecute ==
  /\ NoSync
  /\ NoPage
  /\ NoBatch
  /\ \E options \in ExecuteOptions, failing \in 0..MaxCmdFails :
       exec = [pc |-> "call", options |-> options, failing |-> failing,
               maxRetries |-> 0, retries |-> 0, runs |-> 0, failed |-> 0,
               result |-> "none"]

\* execute: const maxRetries = options.maxRetries || 3; let retries = 0.
executeEnter ==
  /\ exec.pc = "call"
  /\ exec' = [exec EXCEPT
                !.maxRetries = OrDefault(exec.options.maxRetries, DefaultMaxRetries),
                !.retries = 0,
                !.pc = "try"]
  /\ UNCHANGED <<syncVars, pageVars, batch>>

\* executeWithRetry, try: execSync returns the output of the command.
executeWithRetryReturns ==
  /\ exec.pc = "try"
  /\ exec.failing = 0
  /\ exec' = [exec EXCEPT !.runs = @ + 1, !.result = "output", !.pc = "returned"]
  /\ UNCHANGED <<syncVars, pageVars, batch>>

\* executeWithRetry, catch: the command failed and is run again.
executeWithRetryRetries ==
  /\ exec.pc = "try"
  /\ exec.failing > 0
  /\ exec.retries < exec.maxRetries /\ ~exec.options.noRetry
  /\ exec' = [exec EXCEPT !.runs = @ + 1, !.failed = @ + 1, !.failing = @ - 1,
                          !.retries = @ + 1]
  /\ UNCHANGED <<syncVars, pageVars, batch>>

\* executeWithRetry, catch: the command failed for the last time.
executeWithRetryGivesUp ==
  /\ exec.pc = "try"
  /\ exec.failing > 0
  /\ ~(exec.retries < exec.maxRetries /\ ~exec.options.noRetry)
  /\ exec' = [exec EXCEPT
                !.runs = @ + 1, !.failed = @ + 1, !.failing = @ - 1,
                !.result = IF ~exec.options.ignoreError /\ exec.options.exitOnError
                           THEN "exit" ELSE "null",
                !.pc = "returned"]
  /\ UNCHANGED <<syncVars, pageVars, batch>>

NextExecute ==
  \/ executeEnter
  \/ executeWithRetryReturns
  \/ executeWithRetryRetries
  \/ executeWithRetryGivesUp

SpecExecute == InitExecute /\ [][NextExecute]_vars


\* ========================================================= LocalAuthProvider
Usernames == {"ann", "bob", "cat"}

Passwords == {"secret", "hunter2"}

Emails == {"ann@example.com", "bob@work.example"}

\* `${username}@example.com`
ExampleEmail(username) ==
  CASE username = "ann" -> "ann@example.com"
    [] username = "bob" -> "bob@example.com"
    [] OTHER -> "cat@example.com"

\* An entry of localStorage that JSON.parse throws on.
Unparsable == [kind |-> "text", value |-> <<>>]

\* if (isAuthenticated && user): the children are rendered under the header.
SignedIn == auth.isAuthenticated /\ auth.user # Null

\* What the render shows otherwise: the form, or the children.
FormShown == ~SignedIn /\ auth.showAuthForm

ChildrenRendered == SignedIn \/ ~auth.showAuthForm

InitAuth ==
  /\ NoSync
  /\ NoExecute
  /\ NoBatch
  /\ hostname = "localhost"
  /\ localStorage \in [localTodos : {Null}, local_auth_user : {Null, Unparsable}]
  /\ client = [available |-> TRUE, todos |-> <<>>]
  /\ dateNow = 1
  /\ todoList = TodoListState
  /\ auth = AuthState

\* Load user from local storage on mount.
LocalAuthProviderMount ==
  /\ auth.effects # <<>>
  /\ LET storedUser == localStorage.local_auth_user
     IN /\ auth' =
             CASE storedUser = Null ->
                    [auth EXCEPT !.showAuthForm = TRUE, !.effects = <<>>]
               [] storedUser.kind = "json" ->
                    [auth EXCEPT !.user = JSONparse(storedUser),
                                 !.isAuthenticated = TRUE,
                                 !.effects = <<>>]
               [] OTHER -> [auth EXCEPT !.effects = <<>>]
        /\ localStorage' =
             IF storedUser # Null /\ storedUser.kind # "json"
             THEN [localStorage EXCEPT !.local_auth_user = Null]
             ELSE localStorage
  /\ UNCHANGED <<hostname, client, dateNow, todoList>>
  /\ UNCHANGED <<syncVars, exec, batch>>

\* What signIn and signUp do with the user they build.
Authenticate(user) ==
  /\ auth' = [auth EXCEPT !.user = user,
                          !.isAuthenticated = TRUE,
                          !.showAuthForm = FALSE]
  /\ localStorage' = [localStorage EXCEPT !.local_auth_user = JSONstringify(user)]

signIn(username, password) ==
  Authenticate([username |-> username, email |-> ExampleEmail(username),
                isAuthenticated |-> TRUE])

signUp(username, email, password) ==
  Authenticate([username |-> username, email |-> email, isAuthenticated |-> TRUE])

\* onChange of the text fields of the form.
setUsername ==
  /\ auth.effects = <<>>
  /\ FormShown
  /\ \E value \in Usernames : auth' = [auth EXCEPT !.username = value]
  /\ UNCHANGED <<hostname, localStorage, client, dateNow, todoList>>
  /\ UNCHANGED <<syncVars, exec, batch>>

setEmail ==
  /\ auth.effects = <<>>
  /\ FormShown
  /\ auth.authMode = "signUp"
  /\ \E value \in Emails : auth' = [auth EXCEPT !.email = value]
  /\ UNCHANGED <<hostname, localStorage, client, dateNow, todoList>>
  /\ UNCHANGED <<syncVars, exec, batch>>

setPassword ==
  /\ auth.effects = <<>>
  /\ FormShown
  /\ \E value \in Passwords : auth' = [auth EXCEPT !.password = value]
  /\ UNCHANGED <<hostname, localStorage, client, dateNow, todoList>>
  /\ UNCHANGED <<syncVars, exec, batch>>

\* The form is submitted: its fields are required.
handleSubmit ==
  /\ auth.effects = <<>>
  /\ FormShown
  /\ auth.username # "" /\ auth.password # ""
  /\ IF auth.authMode = "signIn"
     THEN signIn(auth.username, auth.password)
     ELSE auth.email # "" /\ signUp(auth.username, auth.email, auth.password)
  /\ UNCHANGED <<hostname, client, dateNow, todoList>>
  /\ UNCHANGED <<syncVars, exec, batch>>

toggleAuthMode ==
  /\ auth.effects = <<>>
  /\ FormShown
  /\ auth' = [auth EXCEPT !.authMode = IF @ = "signIn" THEN "signUp" ELSE "signIn"]
  /\ UNCHANGED <<hostname, localStorage, client, dateNow, todoList>>
  /\ UNCHANGED <<syncVars, exec, batch>>

\* The Sign Out button of the header.
signOut ==
  /\ auth.effects = <<>>
  /\ SignedIn
  /\ auth' = [auth EXCEPT !.user = Null,
                          !.isAuthenticated = FALSE,
                          !.showAuthForm = TRUE]
  /\ localStorage' = [localStorage EXCEPT !.local_auth_user = Null]
  /\ UNCHANGED <<hostname, client, dateNow, todoList>>
  /\ UNCHANGED <<syncVars, exec, batch>>

\* The page is loaded again: the provider starts from its initial state, the
\* browser keeps its localStorage.
LocalAuthProviderReload ==
  /\ auth.effects = <<>>
  /\ auth' = AuthState
  /\ UNCHANGED <<hostname, localStorage, client, dateNow, todoList>>
  /\ UNCHANGED <<syncVars, exec, batch>>

NextAuth ==
  \/ LocalAuthProviderMount
  \/ setUsername
  \/ setEmail
  \/ setPassword
  \/ handleSubmit
  \/ toggleAuthMode
  \/ signOut
  \/ LocalAuthProviderReload

SpecAuth == InitAuth /\ [][NextAuth]_vars


\* ========================================================== importToDynamoDB
\* How many items one import is given at most: more than two chunks.
MaxItems == 52

\* A slice with the element at end included.
SliceInclusive(items, start, end) ==
  SubSeq(items, start + 1, IF end + 1 < Len(items) THEN end + 1 ELSE Len(items))

\* items.slice(start, end): from index start, 0-based, up to end excluded,
\* or up to the end of the array.
Slice(items, start, end) ==
  SubSeq(items, start + 1, IF end < Len(items) THEN end ELSE Len(items))

InitBatch ==
  /\ NoSync
  /\ NoPage
  /\ NoExecute
  /\ \E n \in 0..MaxItems :
       batch = [pc |-> "call", items |-> [k \in 1..n |-> k], i |-> 0,
                chunks |-> <<>>, sent |-> <<>>, thrown |-> FALSE]

\* if (items.length > 0): the chunks are built, or nothing is done.
importToDynamoDBEnter ==
  /\ batch.pc = "call"
  /\ batch' = [batch EXCEPT !.pc = IF Len(batch.items) > 0 THEN "split" ELSE "done"]
  /\ UNCHANGED <<syncVars, pageVars, exec>>

\* for (let i = 0; i < items.length; i += 25) chunks.push(items.slice(i, i + 25))
chunksPush ==
  /\ batch.pc = "split"
  /\ batch.i < Len(batch.items)
  /\ batch' = [batch EXCEPT
                 !.chunks = Append(@, Slice(batch.items, batch.i, batch.i + BatchSize)),
                 !.i = @ + BatchSize]
  /\ UNCHANGED <<syncVars, pageVars, exec>>

chunksDone ==
  /\ batch.pc = "split"
  /\ ~(batch.i < Len(batch.items))
  /\ batch' = [batch EXCEPT !.pc = "send"]
  /\ UNCHANGED <<syncVars, pageVars, exec>>

\* for (const chunk of chunks) await client.send(new BatchWriteCommand(...)):
\* the write is made, or send throws and the catch ends the import.
clientSend ==
  /\ batch.pc = "send"
  /\ Len(batch.sent) < Len(batch.chunks)
  /\ \E ok \in BOOLEAN :
       batch' = IF ok
                THEN [batch EXCEPT !.sent = Append(@, batch.chunks[Len(@) + 1])]
                ELSE [batch EXCEPT !.thrown = TRUE, !.pc = "done"]
  /\ UNCHANGED <<syncVars, pageVars, exec>>

importToDynamoDBReturn ==
  /\ batch.pc = "send"
  /\ Len(batch.sent) = Len(batch.chunks)
  /\ batch' = [batch EXCEPT !.pc = "done"]
  /\ UNCHANGED <<syncVars, pageVars, exec>>

NextBatch ==
  \/ importToDynamoDBEnter
  \/ chunksPush
  \/ chunksDone
  \/ clientSend
  \/ importToDynamoDBReturn

SpecBatch == InitBatch /\ [][NextBatch]_vars


\* ================================================================ claims
IssuedOps == [i \in 1..Len(calls) |-> calls[i].op]

\* The calls issued so far that carry a record of this id.
IssuedFor(id) ==
  SelectSeq(IssuedOps, LAMBDA op : \E k \in 1..Len(op.items) : op.items[k].id = id)

SameTodo(a, b) ==
  /\ getTime(a.updatedAt) = getTime(b.updatedAt)
  /\ a.content = b.content
  /\ a.completed = b.completed

ListedBoth(id) == HasId(localTodos, id) /\ HasId(deployedTodos, id)

\* Listed on both sides with the same instant: the class without a write.
ListedEqual(id) ==
  /\ ListedBoth(id)
  /\ getTime(MapGet(localTodos, id).updatedAt) = getTime(MapGet(deployedTodos, id).updatedAt)

ConvergedOn(id) ==
  /\ HasId(local, id)
  /\ HasId(deployed, id)
  /\ SameTodo(MapGet(local, id), MapGet(deployed, id))

Parsable(todo) == getTime(todo.updatedAt) # NaN

\* Every record the replicas held when the run started has an updatedAt that
\* parses (the other records are the subject of C13).
WellFormed ==
  /\ \A i \in 1..Len(local0) : Parsable(local0[i])
  /\ \A i \in 1..Len(deployed0) : Parsable(deployed0[i])

\* Nobody but the sync command has written to the replicas.
Undisturbed == mutations = 0

\* C1 (as claimed): after a two-way run in which every list, create and
\* update call succeeded, every id of either replica has, on both replicas,
\* a record with equal updatedAt, content and completed.  Stated for the ids
\* the run had to write (those it did not list with equal updatedAt).
C1_Convergence ==
  (pc = "done" /\ mode = "two-way" /\ clean /\ WellFormed /\ Undisturbed) =>
    \A id \in IdSet(local) \cup IdSet(deployed) : ListedEqual(id) \/ ConvergedOn(id)

\* C2 (as claimed): a two-way run started on the state left by a fully
\* successful two-way run issues no create and no update: it has nothing
\* to do after its (successful) listings.
C2_Idempotence ==
  (run > 1 /\ prevClean /\ clean /\ mode = "two-way" /\ script # "sync-data"
     /\ WellFormed /\ Undisturbed /\ pc \in {"sync", "done"})
    => (calls = <<>> /\ plan = <<>>)

InSyncTwoWay == script # "sync-data" /\ mode = "two-way"

LocalNewer(id) ==
  /\ ListedBoth(id)
  /\ Gt(getTime(MapGet(localTodos, id).updatedAt),
        getTime(MapGet(deployedTodos, id).updatedAt))

DeployedNewer(id) ==
  /\ ListedBoth(id)
  /\ Gt(getTime(MapGet(deployedTodos, id).updatedAt),
        getTime(MapGet(localTodos, id).updatedAt))

\* The calls for id are the expected ones once the run is done, and never
\* anything else than those while it is under way or after it was killed.
IssuesExactly(id, expected) ==
  /\ pc = "done" => IssuedFor(id) = expected
  /\ pc \in {"sync", "exited"} => IssuedFor(id) \in {<<>>, expected}

\* C3: in syncTwoWay, an id listed on both sides whose local updatedAt is
\* strictly greater gets exactly one call, updateDeployedTodo with the local
\* record, and no call against the local replica; symmetrically, when the
\* deployed updatedAt is strictly greater, exactly one updateLocalTodo with
\* the deployed record.
C3_NewerWins ==
  (InSyncTwoWay /\ pc \in {"sync", "done", "exited"}) =>
    \A id \in Ids :
      /\ LocalNewer(id) =>
           IssuesExactly(id, <<Op("deployed", "update", MapGet(localTodos, id))>>)
      /\ DeployedNewer(id) =>
           IssuesExactly(id, <<Op("local", "update", MapGet(deployedTodos, id))>>)

\* C3 witness: a finished syncTwoWay that updated the deployed record of one
\* id from the newer local one and the local record of another id from the
\* newer deployed one.
C3_Witness ==
  /\ InSyncTwoWay /\ pc = "done"
  /\ \E i, j \in Ids :
       /\ LocalNewer(i) /\ DeployedNewer(j)
       /\ \E k \in 1..Len(calls) :
            calls[k].ok /\ calls[k].op = Op("deployed", "update", MapGet(localTodos, i))
       /\ \E k \in 1..Len(calls) :
            calls[k].ok /\ calls[k].op = Op("local", "update", MapGet(deployedTodos, j))


\* C4 (as claimed): an id held by both replicas with equal parsed updatedAt
\* gets no create, update or import in any mode, also when its content and
\* completed differ between the two sides; stated for that case and for runs
\* whose calls all succeeded.
C4_NoOpOnEquality ==
  (clean /\ Undisturbed) =>
    \A id \in Ids :
      (/\ HasId(local0, id) /\ HasId(deployed0, id)
       /\ Parsable(MapGet(local0, id))
       /\ getTime(MapGet(local0, id).updatedAt) = getTime(MapGet(deployed0, id).updatedAt)
       /\ MapGet(local0, id).content # MapGet(deployed0, id).content)
        => IssuedFor(id) = <<>>

\* C5 (as claimed): for an id held by the local replica only, a finished
\* two-way or local-to-deployed run of sync-amplify-data.js whose calls all
\* succeeded has issued exactly one call for it, a create on the deployed
\* replica, and the deployed record equals the local one in every field.
C5_CreationPropagation ==
  (/\ script = "sync-amplify-data" /\ pc = "done" /\ clean /\ Undisturbed
   /\ mode \in {"two-way", "local-to-deployed"}) =>
    \A id \in Ids :
      (HasId(local0, id) /\ ~HasId(deployed0, id)) =>
        /\ IssuedFor(id) = <<Op("deployed", "create", MapGet(local0, id))>>
        /\ HasId(deployed, id)
        /\ MapGet(deployed, id) = MapGet(local0, id)

\* C6 (as claimed): a create or update that fails does not end the run: the
\* process is never killed by a failed write while calls remain to be made.
C6_PartialFailureIsolation ==
  ~(/\ pc = "exited"
    /\ calls # <<>>
    /\ ~calls[Len(calls)].ok
    /\ plan # <<>>)

\* C7: a local-to-deployed run issues no create, update or import against
\* the local replica and leaves it as it was (the app user aside); a
\* deployed-to-local run issues none against the deployed replica and leaves
\* it as it was.
C7_ModeRestriction ==
  /\ mode = "local-to-deployed" =>
       /\ \A i \in 1..Len(calls) : calls[i].op.target = "deployed"
       /\ Undisturbed => local = local0
  /\ mode = "deployed-to-local" =>
       /\ \A i \in 1..Len(calls) : calls[i].op.target = "local"
       /\ Undisturbed => deployed = deployed0

\* C7 witness: a finished local-to-deployed run that wrote to the deployed
\* replica, on a data set that a two-way run would also have to write
\* locally (an id the deployed side holds alone or holds newer).
C7_Witness ==
  /\ mode = "local-to-deployed" /\ pc = "done" /\ script # "sync-data"
  /\ \E k \in 1..Len(calls) : calls[k].ok
  /\ \E i \in Ids : DeployedNewer(i) \/ (HasId(deployedTodos, i) /\ ~HasId(localTodos, i))

\* The calls that write: every create and update, every rewrite of the local
\* file, and an import into the table that has items to put.
IsWrite(op) == op.kind # "import" \/ op.target = "local" \/ op.items # <<>>

\* C8 (as claimed): when a listing failed, the run issues no create, update
\* or import at all; stated for replicas that both hold records.
C8_FailFastOnRead ==
  (listFailed /\ local0 # <<>> /\ deployed0 # <<>>) =>
    \A i \in 1..Len(calls) : ~IsWrite(calls[i].op)

LocalOnly(id) == HasId(localTodos, id) /\ ~HasId(deployedTodos, id)

DeployedOnly(id) == ~HasId(localTodos, id) /\ HasId(deployedTodos, id)

Classes(id) ==
  {c \in {"A-only", "B-only", "common-A-newer", "common-B-newer", "common-equal"} :
     \/ c = "A-only" /\ LocalOnly(id)
     \/ c = "B-only" /\ DeployedOnly(id)
     \/ c = "common-A-newer" /\ LocalNewer(id)
     \/ c = "common-B-newer" /\ DeployedNewer(id)
     \/ c = "common-equal" /\ ListedEqual(id)}

WriteOfClass(c, id) ==
  CASE c = "A-only" -> <<Op("deployed", "create", MapGet(localTodos, id))>>
    [] c = "B-only" -> <<Op("local", "create", MapGet(deployedTodos, id))>>
    [] c = "common-A-newer" -> <<Op("deployed", "update", MapGet(localTodos, id))>>
    [] c = "common-B-newer" -> <<Op("local", "update", MapGet(deployedTodos, id))>>
    [] c = "common-equal" -> <<>>

\* The records listed for the id all have an updatedAt that parses.
ListedParsable(id) ==
  /\ HasId(localTodos, id) => Parsable(MapGet(localTodos, id))
  /\ HasId(deployedTodos, id) => Parsable(MapGet(deployedTodos, id))

C10_NoImplicitDeletion ==
  Undisturbed =>
    /\ IdSet(local0) \subseteq IdSet(local)
    /\ IdSet(deployed0) \subseteq IdSet(deployed)

\* C11 (as claimed): no accessor call executes its shell command more often
\* than the configured maximum, 3 by default: there is never a 4th execution.
C11_BoundedRetry == attempts <= DefaultMaxRetries

\* C12: in sync-amplify-data.js, an update of an id the target replica does
\* not hold (the app user deleted it after the listing), whose curl command
\* itself ran without failing, is executed exactly once, is a failed call,
\* and does not end the run.
C12_NotFoundNotRetried ==
  script = "sync-amplify-data" =>
    \A k \in 1..Len(calls) :
      (calls[k].op.kind = "update" /\ ~calls[k].found /\ calls[k].cmdFails = 0) =>
        /\ calls[k].attempts = 1
        /\ ~calls[k].ok
        /\ k = Len(calls) => (pc # "exited" /\ exitCode = 0)

\* C12 witness: sync-amplify-data.js updated an id its target no longer held,
\* once and in vain, and went on to a next call that succeeded.
C12_Witness ==
  /\ script = "sync-amplify-data"
  /\ \E k \in 1..(Len(calls) - 1) :
       /\ calls[k].op.kind = "update" /\ ~calls[k].found
       /\ calls[k].attempts = 1 /\ ~calls[k].ok
       /\ calls[k + 1].ok

\* C13 (as claimed): no create, update or import is issued that carries a
\* record of an id for which a listed record has an updatedAt that does not
\* parse, also when only one side lists the id; stated for the two-way mode
\* and for runs whose calls all succeeded.
C13_MalformedExcluded ==
  (mode = "two-way" /\ clean) =>
    \A id \in Ids : ~ListedParsable(id) => IssuedFor(id) = <<>>

\* The loop of syncTwoWay a call belongs to: updates of the common ids, then
\* creates of the local-only ids, then creates of the deployed-only ids.
LoopOf(op) ==
  IF op.kind = "update" THEN 1 ELSE IF op.target = "deployed" THEN 2 ELSE 3

C15_ExitStatus ==
  mode # "invalid" =>
    /\ pc = "done" => exitCode = 0
    /\ exitCode # 0 => listFailed

RECURSIVE CountCalls(_, _, _, _)
CountCalls(cs, target, kind, ok) ==
  IF cs = <<>> THEN 0
  ELSE (IF Head(cs).op.target = target /\ Head(cs).op.kind = kind /\ Head(cs).ok = ok
        THEN 1 ELSE 0) + CountCalls(Tail(cs), target, kind, ok)

\* The Report of the run as the claim describes it, counted from the calls
\* the run made (A is the local replica, B the deployed one).
ExpectedReport ==
  [kind |-> "report",
   createdOnA |-> CountCalls(calls, "local", "create", TRUE),
   createdOnB |-> CountCalls(calls, "deployed", "create", TRUE),
   updatedOnA |-> CountCalls(calls, "local", "update", TRUE),
   updatedOnB |-> CountCalls(calls, "deployed", "update", TRUE),
   skipped |-> Cardinality({id \in Ids : ListedEqual(id)}),
   failed |-> Len(SelectSeq(calls, LAMBDA c : ~c.ok)),
   failedIds |-> {c.op.items[1].id : c \in {calls[k] : k \in {i \in 1..Len(calls) : ~calls[i].ok}}}]

\* C16 (as claimed): a finished syncTwoWay that made calls returns the Report
\* whose counters are the numbers of calls of each kind it made and whose
\* failure list names the ids of its failed calls.
C16_ReportAccuracy ==
  (InSyncTwoWay /\ pc = "done" /\ calls # <<>>) => Returned = ExpectedReport

OpsOf(ops) == {ops[i] : i \in 1..Len(ops)}

\* The calls syncTwoWay would make over the listings of this run.
TwoWayOps == OpsOf(syncTwoWay(localTodos, deployedTodos))

\* C17: in the two amplify scripts, the calls of a local-to-deployed run
\* (issued or still to come) are, as a set, the calls syncTwoWay makes over
\* the same two listings that target the deployed replica; those of a
\* deployed-to-local run are the ones that target the local replica.
C17_OneWayIsFilter ==
  (script # "sync-data" /\ (pc \in {"sync", "done"} \/ calls # <<>>)) =>
    /\ mode = "local-to-deployed" =>
         OpsOf(IssuedOps \o plan) = {op \in TwoWayOps : op.target = "deployed"}
    /\ mode = "deployed-to-local" =>
         OpsOf(IssuedOps \o plan) = {op \in TwoWayOps : op.target = "local"}

\* C17 witness: a finished deployed-to-local run that made a create, over
\* listings for which syncTwoWay also updates the deployed replica.
C17_Witness ==
  /\ script # "sync-data" /\ mode = "deployed-to-local" /\ pc = "done"
  /\ \E i \in 1..Len(calls) : calls[i].op.kind = "create" /\ calls[i].ok
  /\ \E op \in TwoWayOps : op.target = "deployed" /\ op.kind = "update"

\* What the claim says the merged set holds for an id.
MergedRecord(id, localData, cloudData) ==
  IF HasId(localData, id) /\ HasId(cloudData, id)
  THEN IF Gt(getTime(MapGet(localData, id).updatedAt),
             getTime(MapGet(cloudData, id).updatedAt))
       THEN MapGet(localData, id) ELSE MapGet(cloudData, id)
  ELSE IF HasId(localData, id) THEN MapGet(localData, id) ELSE MapGet(cloudData, id)

IsMerge(items, localData, cloudData) ==
  /\ IdSet(items) = IdSet(localData) \cup IdSet(cloudData)
  /\ \A i, j \in 1..Len(items) : items[i].id = items[j].id => i = j
  /\ \A i \in 1..Len(items) :
       items[i] = MergedRecord(items[i].id, localData, cloudData)

\* C18: the two-way mode of sync-data.js makes two imports, of the same
\* set, into the local store and then into the cloud table; that set holds
\* exactly one record for every id of either export and no other id, the
\* local record where its updatedAt is strictly greater and the cloud record
\* otherwise; and after a run without failure the local store is that set
\* and the cloud table holds every record of it.
C18_TimestampMerge ==
  (script = "sync-data" /\ mode = "two-way" /\ (pc \in {"sync", "done"} \/ calls # <<>>)) =>
    LET ops == IssuedOps \o plan
    IN /\ Len(ops) = 2
       /\ ops[1].kind = "import" /\ ops[1].target = "local"
       /\ ops[2].kind = "import" /\ ops[2].target = "deployed"
       /\ ops[1].items = ops[2].items
       /\ IsMerge(ops[1].items, localTodos, deployedTodos)
       /\ (pc = "done" /\ clean /\ Undisturbed) =>
            /\ local = ops[1].items
            /\ \A i \in 1..Len(ops[1].items) :
                 /\ HasId(deployed, ops[1].items[i].id)
                 /\ MapGet(deployed, ops[1].items[i].id) = ops[1].items[i]

\* C18 witness: a two-way run of sync-data.js without failure, over exports
\* that share one id with a newer local record and another id with equal
\* updatedAt and different content, has imported the local record of the
\* first and the cloud record of the second into both stores.
C18_Witness ==
  /\ script = "sync-data" /\ mode = "two-way" /\ pc = "done" /\ clean /\ run = 1
  /\ \E i, j \in Ids :
       /\ LocalNewer(i) /\ ListedEqual(j) /\ Parsable(MapGet(localTodos, j))
       /\ MapGet(local, i) = MapGet(localTodos, i)
       /\ MapGet(deployed, i) = MapGet(localTodos, i)
       /\ MapGet(local, j) = MapGet(deployedTodos, j)
       /\ MapGet(deployed, j) = MapGet(deployedTodos, j)
       /\ MapGet(localTodos, j) # MapGet(deployedTodos, j)

\* The record of id in the target was replaced during the run although the
\* source held a strictly older one when the run started.
Overwritten(id, target0, target, source0) ==
  /\ HasId(target0, id) /\ HasId(target, id) /\ HasId(source0, id)
  /\ MapGet(target, id) # MapGet(target0, id)
  /\ Gt(getTime(MapGet(target0, id).updatedAt),
        getTime(MapGet(source0, id).updatedAt))

\* C19 (as claimed): in no mode of any script does a run replace a record
\* of the target replica by a source record with a smaller or equal
\* updatedAt; stated for the smaller ones (C4 has the equal ones) and for
\* runs without failure.
C19_LastWriterWins ==
  (clean /\ Undisturbed) =>
    \A id \in Ids :
      /\ ~Overwritten(id, deployed0, deployed, local0)
      /\ ~Overwritten(id, local0, local, deployed0)

\* C20 (as claimed): no step replaces the record a replica holds for an id
\* by one with a smaller updatedAt (both parse).
C20_MonotonicUpdatedAt ==
  [][\A id \in Ids :
       /\ (HasId(local, id) /\ HasId(local', id)
             /\ Parsable(MapGet(local, id)) /\ Parsable(MapGet(local', id)))
            => getTime(MapGet(local', id).updatedAt) >= getTime(MapGet(local, id).updatedAt)
       /\ (HasId(deployed, id) /\ HasId(deployed', id)
             /\ Parsable(MapGet(deployed, id)) /\ Parsable(MapGet(deployed', id)))
            => getTime(MapGet(deployed', id).updatedAt) >= getTime(MapGet(deployed, id).updatedAt)]_vars

\* The stored list of the page: what a reload reads back from 'localTodos'.
StoredTodos ==
  IF localStorage.localTodos.kind = "json"
  THEN JSONparse(localStorage.localTodos) ELSE <<>>

\* C21: automatic fallback. An operation of the TodoList page (createTodo,
\* toggleTodoStatus, deleteTodo) calls the backend exactly when the backend
\* is available: with the backend unavailable it works on the local list and
\* makes no backend call. The mode was not switched by hand.
C21_AutomaticFallback ==
  (todoList.lastCall.op # "none" /\ ~todoList.manual)
    => (todoList.lastCall.backend <=> todoList.lastCall.available)

\* C22: local persistence. On localhost, once the effects have run, the list
\* stored under 'localTodos' is the local todo list of the component, also
\* after the last remaining todo was deleted.
C22_LocalPersistence ==
  (todoList.isLocal /\ Rendered) => StoredTodos = todoList.localTodos

\* A deletion of the app user that took a record held by both replicas from
\* one of them only: the id was deleted once.
OneSided(k) ==
  /\ deleted[k].both
  /\ \A j \in 1..Len(deleted) : j # k => deleted[j].id # deleted[k].id

Replica(target) == IF target = "local" THEN local ELSE deployed

OtherSide(target) == IF target = "local" THEN "deployed" ELSE "local"

\* The modes that write to this replica.
Towards(target) ==
  {"two-way", IF target = "local" THEN "deployed-to-local" ELSE "local-to-deployed"}

\* C23: delete is not propagated. A record of both replicas that was deleted
\* on one of them only is never deleted from the other replica by a run (no
\* accessor call having failed), and
\* a later run towards the replica of the deletion (two-way, or one-way from
\* the other side) that ends without a failure has recreated it there.
C23_DeleteNotPropagated ==
  \A k \in 1..Len(deleted) :
    OneSided(k) =>
      /\ failures = 0 => HasId(Replica(OtherSide(deleted[k].target)), deleted[k].id)
      /\ (run > deleted[k].run /\ pc = "done" /\ clean
            /\ mode \in Towards(deleted[k].target))
           => HasId(Replica(deleted[k].target), deleted[k].id)

\* The create and update calls of this run that carry a record of this id.
WritesFor(id) ==
  SelectSeq(IssuedOps,
            LAMBDA op : op.kind \in {"create", "update"} /\ op.items[1].id = id)

\* C24: at most one write per id per run. A run issues at most one create or
\* update for an id, also when a listing held the id more than once.
C24_AtMostOneWritePerId == \A id \in Ids : Len(WritesFor(id)) <= 1

\* C25: the retry helper is bounded. With maxRetries configured (0 included)
\* execute runs the command at most maxRetries + 1 times; it returns the output
\* of the first run that succeeds; when every run failed and ignoreError is
\* set it returns null and does not exit.
C25_BoundedAttempts ==
  exec.pc # "idle" =>
    /\ exec.options.maxRetries.given
         => exec.runs <= exec.options.maxRetries.value + 1
    /\ exec.result = "output" => exec.runs = exec.failed + 1
    /\ (exec.pc = "returned" /\ exec.runs = exec.failed /\ exec.options.ignoreError)
         => exec.result = "null"

\* The call is the first write of its run for the id it carries.
FirstWrite(k) ==
  \A j \in 1..(k - 1) :
    calls[j].op.kind = "import" \/ calls[j].op.items[1].id # calls[k].op.items[1].id

\* C26: no lost update under a concurrent writer. An update of the run that
\* succeeds does not replace a record of the target by data whose updatedAt
\* is smaller than the one the target held when the update was made, also
\* when another client updated the record after the run listed the replica.
C26_NoLostUpdate ==
  \A k \in 1..Len(calls) :
    (calls[k].op.kind = "update" /\ calls[k].ok /\ calls[k].found /\ FirstWrite(k))
      => ~Gt(calls[k].heldAt, getTime(calls[k].op.items[1].updatedAt))

\* C27: auth state consistency. Once the mount effect has run, and after any
\* signIn, signUp and signOut, these four agree: isAuthenticated, user is not
\* null, localStorage holds an entry under 'local_auth_user', showAuthForm is
\* false.
C27_AuthStateConsistency ==
  auth.effects = <<>> =>
    /\ auth.isAuthenticated <=> auth.user # Null
    /\ auth.isAuthenticated <=> localStorage.local_auth_user # Null
    /\ auth.isAuthenticated <=> ~auth.showAuthForm

\* C28: auth gating. Once the mount effect has run the children are rendered
\* only when a user is authenticated, and without one (no stored entry, or an
\* unparsable one that was removed) the authentication form is shown.
C28_AuthGating ==
  auth.effects = <<>> =>
    /\ ChildrenRendered => SignedIn
    /\ ~SignedIn => FormShown

\* C29: batch chunking. importToDynamoDB splits the items into chunks of 1 to
\* 25 items whose concatenation, in order, is the input; the batch writes it
\* sends are these chunks, one after the other; with no item it sends none.
C29_BatchChunking ==
  /\ batch.pc \in {"send", "done"} =>
       /\ \A k \in 1..Len(batch.chunks) :
             Len(batch.chunks[k]) >= 1 /\ Len(batch.chunks[k]) <= BatchSize
       /\ Flatten(batch.chunks) = batch.items
       /\ batch.chunks = Chunks(batch.items)
       /\ batch.sent = SubSeq(batch.chunks, 1, Len(batch.sent))
       /\ batch.items = <<>> => batch.sent = <<>>
  /\ (batch.pc = "done" /\ ~batch.thrown) => Flatten(batch.sent) = batch.items

\* An import of more than two full chunks has sent them all.
C29_Witness ==
  /\ batch.pc = "done"
  /\ ~batch.thrown
  /\ Len(batch.sent) = 3
  /\ Len(batch.sent[3]) < BatchSize

\* C30: an invalid mode is a no-op. Started with a direction other than the
\* three supported ones, the command lists neither replica, issues no create,
\* update or import, and leaves both replicas as they were.
C30_InvalidModeNoOp ==
  (mode = "invalid" /\ pc # "idle") =>
    /\ pc \in {"main", "done", "exited"}
    /\ attempts = 0
    /\ localTodos = <<>> /\ deployedTodos = <<>>
    /\ plan = <<>> /\ calls = <<>>
    /\ local = local0 /\ deployed = deployed0

\* The command was started with an invalid direction and has ended, with
\* records on both replicas.
C30_Witness ==
  /\ mode = "invalid"
  /\ pc \in {"done", "exited"}
  /\ local # <<>> /\ deployed # <<>>

====
